---- MODULE Spec2Model ----
(***************************************************************************)
(* Model of app.py: the LINE webhook handler handle_message and the        *)
(* adaptive screening walk it implements over the per-caller dictionary    *)
(* user_states.  Chinese string literals of the source are written in      *)
(* ASCII; the source text is quoted in the comments.                       *)
(***************************************************************************)
EXTENDS Integers, Sequences, FiniteSets, TLC

VARIABLES
    user_states,  \* app.py:212  dict: caller id -> session dict
    sheet,        \* the rows sheet.get_all_values() returns (item bank)
    out,          \* what the last handler step sent / how it ended
    pc,           \* per handler thread: position in handle_message
    loc,          \* per handler thread: the local variables of handle_message
    nmsg          \* number of messages delivered to handler threads

vars == <<user_states, sheet, out, pc, loc, nmsg>>

----------------------------------------------------------------------------
(* Bounds of the model *)

\* largest number of rows one group has in the modelled item bank
MaxItems == 2
\* number of messages delivered in the concurrent specification
MaxMsgs == 5
\* largest composite given to the band function
MaxComposite == 52
\* messages delivered when two callers are served
MaxCallerMsgs == 4
\* largest number of rows one group has in the item bank of the progress specification
MaxProgressItems == 1
\* largest number of items classified Fail in one attempt on the table-sized bank
MaxFails == 3

Users == {"u1"}
Threads == {1, 2}

----------------------------------------------------------------------------
(* Modes, app.py:215-221 *)

\* "主選單"
MODE_MAIN_MENU == "MainMenu"
\* "篩檢模式"
MODE_AGING == "Aging"
\* "語言發展建議模式"
MODE_TIPS == "Tips"
\* "語言治療資訊模式"
MODE_TREATMENT == "Treatment"
\* "首組篩檢"
MODE_TESTING_FIRST == "TestingFirst"
\* "順向施測"
MODE_TESTING_FORWARD == "TestingForward"
\* "逆向施測"
MODE_TESTING_BACKWARD == "TestingBackward"

TestingModes == {MODE_TESTING_FIRST, MODE_TESTING_FORWARD, MODE_TESTING_BACKWARD}

\* user messages that handle_message compares with ==
\* "返回"
CMD_BACK == "back"
\* "篩檢"
CMD_SCREEN == "screen"
\* "提升"
CMD_TIPS == "tips"
\* "治療"
CMD_TREATMENT == "treatment"
\* any other text
CMD_OTHER == "text"

Commands == {CMD_BACK, CMD_SCREEN, CMD_TIPS, CMD_TREATMENT, CMD_OTHER}

----------------------------------------------------------------------------
(* Scoring tables, app.py:170-209 *)

LastGroup == 9
FirstGroup == 1
\* app.py:433  "第1-8組分數加總為44"
TopGroupOffset == 44
\* app.py:276  ages above 36 months are not screened
MaxMonths == 36

Groups == FirstGroup..LastGroup

standards ==
    [g \in Groups |->
        CASE g = 1 -> <<2, 4, 7, 8, 9>>
          [] g = 2 -> <<8, 9, 9, 11, 13>>
          [] g = 3 -> <<11, 13, 14, 18, 19>>
          [] g = 4 -> <<17, 19, 21, 25, 28>>
          [] g = 5 -> <<22, 24, 25, 33, 38>>
          [] g = 6 -> <<25, 30, 31, 42, 45>>
          [] g = 7 -> <<33, 36, 44, 48, 50>>
          [] g = 8 -> <<37, 43, 48, 50, 50>>
          [] OTHER -> <<44, 48, 50, 50, 50>>]

\* a slip: the average band ends at the third cut-point
evaluate_development_mut(score_all_final, original_group) ==
    LET threshold == standards[original_group]
    IN  IF score_all_final < threshold[1] THEN "SuspectedDelay"
        ELSE IF score_all_final < threshold[2] THEN "PossiblyBehind"
        ELSE IF score_all_final >= threshold[2] /\ score_all_final < threshold[3]
             THEN "Average"
        ELSE IF score_all_final < threshold[5] THEN "SlightlyAhead"
        ELSE "Ahead"

\* bands: "疑似遲緩", "可能落後", "平均水準", "稍微超前", "超前"
evaluate_development(score_all_final, original_group) ==
    LET threshold == standards[original_group]
    IN  IF score_all_final < threshold[1] THEN "SuspectedDelay"
        ELSE IF score_all_final < threshold[2] THEN "PossiblyBehind"
        ELSE IF score_all_final >= threshold[2] /\ score_all_final < threshold[4]
             THEN "Average"
        ELSE IF score_all_final < threshold[5] THEN "SlightlyAhead"
        ELSE "Ahead"

group_age_mapping ==
    [g \in Groups |->
        CASE g = 1 -> 0  [] g = 2 -> 5  [] g = 3 -> 9
          [] g = 4 -> 13 [] g = 5 -> 17 [] g = 6 -> 21
          [] g = 7 -> 25 [] g = 8 -> 29 [] OTHER -> 33]

\* a slip: the age looked up for a group is one month below its window
get_min_age_for_group_mut(group) == group_age_mapping[group] - 1

\* app.py:195-197
get_min_age_for_group(group) == group_age_mapping[group]

group_all_score_mapping ==
    [g \in Groups |->
        CASE g = 1 -> 5  [] g = 2 -> 10 [] g = 3 -> 15
          [] g = 4 -> 20 [] g = 5 -> 26 [] g = 6 -> 32
          [] g = 7 -> 38 [] g = 8 -> 44 [] OTHER -> 50]

get_group_all_score(group) == group_all_score_mapping[group]

----------------------------------------------------------------------------
(* The item bank: the rows of the sheet.  Row = (組別, 年齡區間, 題號, 類別);*)
(* the age window "X-Y個月" is kept as its two integers.  Group g covers    *)
(* the months from its minimum age up to the month before the next group's *)
(* minimum age; group 9 ends at 36 months.                                 *)

GroupSize(g) == 1 + (g % MaxItems)

RECURSIVE ItemsBelow(_)
ItemsBelow(g) == IF g <= FirstGroup THEN 0 ELSE ItemsBelow(g - 1) + GroupSize(g - 1)

\* 類別 column: "R", "E", anything else counts for both
TypeOfItem(n) == CASE n % 4 = 1 -> "R" [] n % 4 = 2 -> "E" [] OTHER -> "RE"

GroupMaxAge(g) == IF g = LastGroup THEN MaxMonths ELSE group_age_mapping[g + 1] - 1

GroupRows(g) ==
    [i \in 1..GroupSize(g) |->
        [group |-> g, min_age |-> group_age_mapping[g], max_age |-> GroupMaxAge(g),
         number |-> ItemsBelow(g) + i, type |-> TypeOfItem(ItemsBelow(g) + i)]]

RECURSIVE RowsUpTo(_)
RowsUpTo(g) == IF g < FirstGroup THEN <<>> ELSE RowsUpTo(g - 1) \o GroupRows(g)

SheetRows == RowsUpTo(LastGroup)

\* None and the empty list are both written <<>>
None == <<>>

\* A row as read from the sheet.  A row of SheetRows has seven columns, a
\* numeric group and an age range with two integers; a row that lacks one of
\* these carries the key "defect" naming what it lacks.
Defects == {"age_range", "group", "columns"}

Malformed(row, defect) == [x \in DOMAIN row \cup {"defect"} |-> IF x = "defect" THEN defect ELSE row[x]]

\* app.py:149-155: row[1], int(row[0]) and row[2]..row[6] are evaluated for
\* every row before the age range is looked at; int raises ValueError on a
\* non-numeric group and a subscript raises IndexError on a short row
RowRaises(row) == "defect" \in DOMAIN row /\ row["defect"] \in {"group", "columns"}

\* app.py:158-159: re.findall(r'\d+', age_range) found exactly two integers
TwoIntegers(row) == ~("defect" \in DOMAIN row /\ row["defect"] = "age_range")

\* app.py:142-167.  readOk = FALSE: sheet.get_all_values() raised.  The one
\* try statement encloses the read and the whole loop, so an exception raised
\* at any row ends in the except branch, which returns None.
get_questions_by_age(data, months, readOk) ==
    IF ~readOk \/ \E i \in 1..Len(data) : RowRaises(data[i]) THEN None
    ELSE LET InWindow(row) == TwoIntegers(row) /\ row.min_age <= months /\ months <= row.max_age
             questions == SelectSeq(data, InWindow)
         IN  IF questions # <<>> THEN questions ELSE None

----------------------------------------------------------------------------
(* Classifier replies, app.py:363-403.  A reply is a sequence of           *)
(* characters; the branch is chosen with startswith.                       *)

\* "符合"
TOKEN_PASS == <<"fu", "he">>
\* "不符合"
TOKEN_FAIL == <<"bu", "fu", "he">>
\* "不清楚"
TOKEN_UNCLEAR == <<"bu", "qing", "chu">>

startswith(s, prefix) ==
    Len(s) >= Len(prefix) /\ SubSeq(s, 1, Len(prefix)) = prefix

\* the texts chat_with_deepseek can return: the three tokens, a token with
\* trailing text, the apology of app.py:66-75, and unrelated text
Replies ==
    { TOKEN_PASS, TOKEN_FAIL, TOKEN_UNCLEAR,
      TOKEN_PASS \o <<"dot">>, <<"xi", "tong">>, <<"bu">> }

Verdict(reply) ==
    IF startswith(reply, TOKEN_PASS) THEN "Pass"
    ELSE IF startswith(reply, TOKEN_FAIL) THEN "Fail"
    ELSE IF startswith(reply, TOKEN_UNCLEAR) THEN "Unclear"
    ELSE "Other"

----------------------------------------------------------------------------
(* Session dictionaries.  A session is a function from keys to values, so  *)
(* that {"mode": MODE_MAIN_MENU} really has no other key.                  *)

Has(d, k) == k \in DOMAIN d

\* d[k] = v on a Python dict
Put(d, k, v) == [x \in DOMAIN d \cup {k} |-> IF x = k THEN v ELSE d[x]]

\* {"mode": MODE_MAIN_MENU}
MainMenuState == [mode |-> MODE_MAIN_MENU]

\* a slip: the index of the first item taken to be 1
NewSession_mut(total_months, questions) ==
    [mode |-> MODE_TESTING_FIRST,
     total_months |-> total_months,
     questions |-> questions,
     current_index |-> 1,
     score_all_current |-> 0,
     score_all |-> 0, score_r |-> 0, score_e |-> 0,
     original_group |-> questions[1].group,
     group |-> questions[1].group,
     min_age_in_group |-> get_min_age_for_group(questions[1].group),
     right_questions |-> <<>>,
     wrong_questions |-> <<>>]

\* app.py:286-298
NewSession(total_months, questions) ==
    [mode |-> MODE_TESTING_FIRST,
     total_months |-> total_months,
     questions |-> questions,
     current_index |-> 0,
     score_all_current |-> 0,
     score_all |-> 0, score_r |-> 0, score_e |-> 0,
     original_group |-> questions[1].group,
     group |-> questions[1].group,
     min_age_in_group |-> get_min_age_for_group(questions[1].group),
     right_questions |-> <<>>,
     wrong_questions |-> <<>>]

\* what a handler sent last: for a report the composite (score), the band
\* (result), the group whose thresholds gave the band (group) and the group
\* the walk stopped at (at).  kind: "menu", "prompt" (birth date asked),
\* "question" (an item is asked), "hint", "unrecognised", "report",
\* "range" (older than 36 months), "config_error", "silent" (returned
\* without a reply), "fault" (an exception left handle_message), "none"
Sent(kind, mode, verdict) ==
    [kind |-> kind, mode |-> mode, verdict |-> verdict, user |-> "", lookup |-> "",
     score |-> 0, result |-> "", group |-> 0, at |-> 0, right |-> <<>>, wrong |-> <<>>]

\* the caller whose message was handled
By(u, sent) == [sent EXCEPT !.user = u]

\* what the item lookup of a transition returned
Looked(sent, questions) ==
    [sent EXCEPT !.lookup = IF questions = <<>> THEN "empty" ELSE "items"]

NoOutput == Sent("none", "", "")

\* a slip: the band is looked up with the group the walk stopped at
Report_mut(st, mode, verdict, score_all_final, original_group) ==
    [kind |-> "report", mode |-> mode, verdict |-> verdict, user |-> "", lookup |-> "",
     score |-> score_all_final,
     result |-> evaluate_development(score_all_final, st["group"]),
     group |-> st["group"],
     at |-> st["group"],
     right |-> SortSeq(st["right_questions"], <),
     wrong |-> SortSeq(st["wrong_questions"], <)]

\* the two report messages of a finalization, e.g. app.py:436-455
Report(st, mode, verdict, score_all_final, original_group) ==
    [kind |-> "report", mode |-> mode, verdict |-> verdict, user |-> "", lookup |-> "",
     score |-> score_all_final,
     result |-> evaluate_development(score_all_final, original_group),
     group |-> original_group,
     at |-> st["group"],
     right |-> SortSeq(st["right_questions"], <),
     wrong |-> SortSeq(st["wrong_questions"], <)]

\* result of running a handler on session st: the session it leaves, what it
\* sent, and whether an assignment of {"mode": MODE_MAIN_MENU} is still to
\* come after the reply that was sent ("reset") or not ("done")
Result(st, sent, then) == [st |-> st, out |-> sent, then |-> then]

\* the local variables a testing branch loads, app.py:327-334, 505-513, 653-661
LoadLocals(st) ==
    [mode |-> st["mode"],
     questions |-> st["questions"],
     current_index |-> st["current_index"],
     score_all_current |-> st["score_all_current"],
     score_all |-> st["score_all"],
     score_r |-> st["score_r"],
     score_e |-> st["score_e"],
     original_group |-> st["original_group"]]

NoLocals ==
    [mode |-> "", questions |-> <<>>, current_index |-> 0, score_all_current |-> 0,
     score_all |-> 0, score_r |-> 0, score_e |-> 0, original_group |-> 0]

\* questions[current_index] at app.py:342, 522, 669 raises when questions is
\* None or the index is past the end
CanReadQuestion(L) == L.current_index < Len(L.questions)

\* a slip: an item of both types counts as receptive only
AddTypeScores_mut(st, L, question_type) ==
    IF question_type = "E" THEN Put(st, "score_e", L.score_e + 1)
    ELSE Put(st, "score_r", L.score_r + 1)

\* app.py:372-384, 554-566, 701-713: the sub-scores of a passed item
AddTypeScores(st, L, question_type) ==
    IF question_type = "R" THEN Put(st, "score_r", L.score_r + 1)
    ELSE IF question_type = "E" THEN Put(st, "score_e", L.score_e + 1)
    ELSE Put(Put(st, "score_r", L.score_r + 1), "score_e", L.score_e + 1)

score_r_after(L, question_type) ==
    IF question_type = "E" THEN L.score_r ELSE L.score_r + 1

score_e_after(L, question_type) ==
    IF question_type = "R" THEN L.score_e ELSE L.score_e + 1

----------------------------------------------------------------------------
(* The three testing branches of handle_message.  st is the caller's       *)
(* session when the classifier has answered, L the locals loaded before    *)
(* the classifier was called, reply the classifier's text, data the rows   *)
(* of the sheet and readOk whether the sheet can be read.                  *)

\* d.update(r)
PutAll(d, r) == [x \in DOMAIN d \cup DOMAIN r |-> IF x \in DOMAIN r THEN r[x] ELSE d[x]]

\* an exception leaves handle_message; the writes made so far stay
Fault(st, mode, verdict) == Result(st, Sent("fault", mode, verdict), "done")

\* a slip: the hint branch moves on to the next item
Hint_mut(st, mode, verdict) ==
    Result(Put(st, "current_index", st["current_index"] + 1),
           Sent("hint", mode, verdict), "done")

\* app.py:390-399, 573-582, 719-728: the classifier answered "不清楚"; a hint
\* is generated and sent, nothing is written
Hint(st, mode, verdict) == Result(st, Sent("hint", mode, verdict), "done")

\* a slip: a reply that is no category is recorded as a miss
Unrecognised_mut(st, mode, verdict) ==
    Result(Put(Put(st, "wrong_questions", Append(st["wrong_questions"], 0)),
               "current_index", st["current_index"] + 1),
           Sent("unrecognised", mode, verdict), "done")

\* app.py:400-403, 583-586, 729-732: the reply starts with none of the three
\* tokens (the apology of chat_with_deepseek included)
Unrecognised(st, mode, verdict) == Result(st, Sent("unrecognised", mode, verdict), "done")

\* a slip: the item is recorded without growing the ledger
AppendTo_mut(st, ledger, question_number) == Put(st, ledger, st[ledger])

\* app.py:370, 388: user_states[user_id][ledger].append(question_number)
AppendTo(st, ledger, question_number) == Put(st, ledger, Append(st[ledger], question_number))

\* a slip: the table entry of group 9 is added instead of that of groups 1-8
TopGroupScore_mut(score_all_first) == score_all_first + get_group_all_score(LastGroup)

\* app.py:433
TopGroupScore(score_all_first) == score_all_first + TopGroupOffset

\* a slip: the scores of the first group are left in the session
EnterForward_mut(current_group, new_questions) ==
    [mode |-> MODE_TESTING_FORWARD,
     status |-> "Forward",
     group |-> current_group + 1,
     min_age_in_group |-> get_min_age_for_group(current_group + 1),
     questions |-> new_questions,
     current_index |-> 0]

\* app.py:419-427: the keys written when the first group was passed
EnterForward(current_group, new_questions) ==
    [mode |-> MODE_TESTING_FORWARD,
     status |-> "Forward",
     group |-> current_group + 1,
     min_age_in_group |-> get_min_age_for_group(current_group + 1),
     questions |-> new_questions,
     current_index |-> 0,
     score_all |-> 0, score_r |-> 0, score_e |-> 0]

\* a slip: the total is reset with the two sub-scores
EnterBackward_mut(current_group, new_questions) ==
    [mode |-> MODE_TESTING_BACKWARD,
     status |-> "Backward",
     group |-> current_group - 1,
     min_age_in_group |-> get_min_age_for_group(current_group - 1),
     questions |-> new_questions,
     current_index |-> 0,
     score_all |-> 0, score_r |-> 0, score_e |-> 0]

\* app.py:463-470: the keys written when the first group had a miss
EnterBackward(current_group, new_questions) ==
    [mode |-> MODE_TESTING_BACKWARD,
     status |-> "Backward",
     group |-> current_group - 1,
     min_age_in_group |-> get_min_age_for_group(current_group - 1),
     questions |-> new_questions,
     current_index |-> 0,
     score_r |-> 0, score_e |-> 0]

\* app.py:405-500
FirstGroupCompletion(st, L, verdict, current_index, score_all_first, readOk, data) ==
    LET questions == L.questions
        current_group == questions[1].group
        mode == MODE_TESTING_FIRST
        st1 == Put(st, "current_index", current_index)
    IN  IF current_index < Len(questions)
        THEN Result(st1, Sent("question", mode, verdict), "done")
        ELSE IF score_all_first = Len(questions)
        THEN IF current_group < LastGroup
             THEN LET new_questions ==
                          get_questions_by_age(data, get_min_age_for_group(current_group + 1), readOk)
                      st2 == PutAll(st1, EnterForward(current_group, new_questions))
                  IN  IF new_questions = None
                      THEN Result(st2, Looked(Sent("fault", mode, verdict), new_questions), "done")
                      ELSE Result(st2, Looked(Sent("question", mode, verdict), new_questions), "done")
             ELSE Result(st1,
                         Report(st1, mode, verdict, TopGroupScore(score_all_first),
                                L.original_group),
                         "reset")
        ELSE IF score_all_first < Len(questions)
        THEN IF current_group > FirstGroup
             THEN LET new_questions ==
                          get_questions_by_age(data, get_min_age_for_group(current_group - 1), readOk)
                      st2 == PutAll(st1, EnterBackward(current_group, new_questions))
                  IN  IF new_questions = None
                      THEN Result(st2, Looked(Sent("fault", mode, verdict), new_questions), "done")
                      ELSE Result(st2, Looked(Sent("question", mode, verdict), new_questions), "done")
             ELSE Result(st1,
                         Report(st1, mode, verdict, score_all_first, L.original_group),
                         "reset")
        ELSE Result(st1, Sent("silent", mode, verdict), "done")

\* app.py:326-500
TestingFirst(st, L, reply, readOk, data) ==
    LET mode == MODE_TESTING_FIRST
        current_question == L.questions[L.current_index + 1]
        question_number == current_question.number
        question_type == current_question.type
        verdict == Verdict(reply)
    IN  IF startswith(reply, TOKEN_PASS)
        THEN LET score_all_first == L.score_all + 1
                 st1 == Put(st, "score_all", score_all_first)
             IN  IF ~Has(st1, "right_questions")
                 THEN Fault(st1, mode, verdict)
                 ELSE LET st2 == AppendTo(st1, "right_questions", question_number)
                          st3 == AddTypeScores(st2, L, question_type)
                      IN  FirstGroupCompletion(st3, L, verdict, L.current_index + 1,
                                               score_all_first, readOk, data)
        ELSE IF startswith(reply, TOKEN_FAIL)
        THEN IF ~Has(st, "wrong_questions")
             THEN Fault(st, mode, verdict)
             ELSE LET st1 == AppendTo(st, "wrong_questions", question_number)
                  IN  FirstGroupCompletion(st1, L, verdict, L.current_index + 1,
                                           L.score_all, readOk, data)
        ELSE IF startswith(reply, TOKEN_UNCLEAR)
        THEN Hint(st, mode, verdict)
        ELSE Unrecognised(st, mode, verdict)

\* a slip: half of the group passed is taken for a passed group
ForwardContinues_mut(score_all_forward_current, questions, current_group) ==
    2 * score_all_forward_current >= Len(questions) /\ current_group < LastGroup

\* app.py:594-596: pass_percentage == 1.0 and current_group < 9
ForwardContinues(score_all_forward_current, questions, current_group) ==
    score_all_forward_current = Len(questions) /\ current_group < LastGroup

\* a slip: the table entry of the group below original_group is added
ForwardFinalScore_mut(original_group, score_all_forward_whole) ==
    IF original_group > FirstGroup
    THEN get_group_all_score(original_group - 1) + score_all_forward_whole
    ELSE score_all_forward_whole

\* app.py:624
ForwardFinalScore(original_group, score_all_forward_whole) ==
    get_group_all_score(original_group) + score_all_forward_whole

\* app.py:587-648
ForwardGroupCompletion(st, L, verdict, current_index, score_all_forward_current, score_all_forward_whole, score_r_forward, score_e_forward, readOk, data) ==
    LET questions == L.questions
        current_group == questions[1].group
        mode == MODE_TESTING_FORWARD
        st1 == Put(st, "current_index", current_index)
    IN  IF current_index < Len(questions)
        THEN Result(st1, Sent("question", mode, verdict), "done")
        ELSE IF ForwardContinues(score_all_forward_current, questions, current_group)
        THEN LET next_group == current_group + 1
                 min_age_in_group == get_min_age_for_group(next_group)
                 new_questions == get_questions_by_age(data, min_age_in_group, readOk)
             IN  IF new_questions # None
                 THEN Result(PutAll(st1,
                                 [group |-> next_group,
                                  min_age_in_group |-> min_age_in_group,
                                  questions |-> new_questions,
                                  current_index |-> 0,
                                  score_all_current |-> 0,
                                  score_all |-> score_all_forward_whole,
                                  score_r |-> score_r_forward,
                                  score_e |-> score_e_forward,
                                  right_questions |-> st1["right_questions"],
                                  wrong_questions |-> st1["wrong_questions"]]),
                             Looked(Sent("question", mode, verdict), new_questions), "done")
                 ELSE Result(st1, Looked(Sent("config_error", mode, verdict), new_questions),
                             "reset")
        ELSE Result(st1,
                    Report(st1, mode, verdict,
                           ForwardFinalScore(L.original_group, score_all_forward_whole),
                           L.original_group),
                    "reset")

\* app.py:504-648
TestingForward(st, L, reply, readOk, data) ==
    LET mode == MODE_TESTING_FORWARD
        current_question == L.questions[L.current_index + 1]
        question_number == current_question.number
        question_type == current_question.type
        verdict == Verdict(reply)
    IN  IF startswith(reply, TOKEN_PASS)
        THEN LET score_all_forward_current == L.score_all_current + 1
                 score_all_forward_whole == L.score_all + 1
                 st1 == PutAll(st, [score_all_current |-> score_all_forward_current,
                                    score_all |-> score_all_forward_whole])
             IN  IF ~Has(st1, "right_questions")
                 THEN Fault(st1, mode, verdict)
                 ELSE LET st2 == AppendTo(st1, "right_questions", question_number)
                          st3 == AddTypeScores(st2, L, question_type)
                      IN  ForwardGroupCompletion(st3, L, verdict, L.current_index + 1,
                              score_all_forward_current, score_all_forward_whole,
                              score_r_after(L, question_type), score_e_after(L, question_type),
                              readOk, data)
        ELSE IF startswith(reply, TOKEN_FAIL)
        THEN IF ~Has(st, "wrong_questions")
             THEN Fault(st, mode, verdict)
             ELSE LET st1 == AppendTo(st, "wrong_questions", question_number)
                  IN  ForwardGroupCompletion(st1, L, verdict, L.current_index + 1,
                          L.score_all_current, L.score_all, L.score_r, L.score_e,
                          readOk, data)
        ELSE IF startswith(reply, TOKEN_UNCLEAR)
        THEN Hint(st, mode, verdict)
        ELSE Unrecognised(st, mode, verdict)

\* a slip: <= 1.0 for < 1.0, a perfect group no longer stops the walk
BackwardContinues_mut(score_all_backward_current, questions, current_group) ==
    score_all_backward_current <= Len(questions) /\ current_group > FirstGroup

\* app.py:741-743: pass_percentage < 1.0 and current_group > 1
BackwardContinues(score_all_backward_current, questions, current_group) ==
    score_all_backward_current < Len(questions) /\ current_group > FirstGroup

\* a slip: the table entry of the stopping group itself is added
BackwardFinalScore_mut(current_group, score_all_backward_whole) ==
    IF current_group > FirstGroup
    THEN get_group_all_score(current_group) + score_all_backward_whole
    ELSE score_all_backward_whole

\* app.py:772-800
BackwardFinalScore(current_group, score_all_backward_whole) ==
    IF current_group > FirstGroup
    THEN get_group_all_score(current_group - 1) + score_all_backward_whole
    ELSE score_all_backward_whole

\* app.py:734-824
BackwardGroupCompletion(st, L, verdict, current_index, score_all_backward_current, score_all_backward_whole, score_r_backward, score_e_backward, readOk, data) ==
    LET questions == L.questions
        current_group == questions[1].group
        mode == MODE_TESTING_BACKWARD
        st1 == Put(st, "current_index", current_index)
    IN  IF current_index < Len(questions)
        THEN Result(st1, Sent("question", mode, verdict), "done")
        ELSE IF BackwardContinues(score_all_backward_current, questions, current_group)
        THEN LET next_group == current_group - 1
                 min_age_in_group == get_min_age_for_group(next_group)
                 new_questions == get_questions_by_age(data, min_age_in_group, readOk)
             IN  IF new_questions # None
                 THEN Result(PutAll(st1,
                                 [group |-> next_group,
                                  min_age_in_group |-> min_age_in_group,
                                  questions |-> new_questions,
                                  current_index |-> 0,
                                  score_all_current |-> 0,
                                  score_all |-> score_all_backward_whole,
                                  score_r |-> score_r_backward,
                                  score_e |-> score_e_backward,
                                  right_questions |-> st1["right_questions"],
                                  wrong_questions |-> st1["wrong_questions"]]),
                             Looked(Sent("question", mode, verdict), new_questions), "done")
                 ELSE Result(MainMenuState,
                             Looked(Sent("config_error", mode, verdict), new_questions), "done")
        ELSE Result(st1,
                    Report(st1, mode, verdict,
                           BackwardFinalScore(current_group, score_all_backward_whole),
                           L.original_group),
                    "reset")

\* app.py:652-824
TestingBackward(st, L, reply, readOk, data) ==
    LET mode == MODE_TESTING_BACKWARD
        current_question == L.questions[L.current_index + 1]
        question_number == current_question.number
        question_type == current_question.type
        verdict == Verdict(reply)
    IN  IF startswith(reply, TOKEN_PASS)
        THEN LET score_all_backward_current == L.score_all_current + 1
                 score_all_backward_whole == L.score_all + 1
                 st1 == PutAll(st, [score_all_current |-> score_all_backward_current,
                                    score_all |-> score_all_backward_whole])
             IN  IF ~Has(st1, "right_questions")
                 THEN Fault(st1, mode, verdict)
                 ELSE LET st2 == AppendTo(st1, "right_questions", question_number)
                          st3 == AddTypeScores(st2, L, question_type)
                      IN  BackwardGroupCompletion(st3, L, verdict, L.current_index + 1,
                              score_all_backward_current, score_all_backward_whole,
                              score_r_after(L, question_type), score_e_after(L, question_type),
                              readOk, data)
        ELSE IF startswith(reply, TOKEN_FAIL)
        THEN IF ~Has(st, "wrong_questions")
             THEN Fault(st, mode, verdict)
             ELSE LET st1 == AppendTo(st, "wrong_questions", question_number)
                  IN  BackwardGroupCompletion(st1, L, verdict, L.current_index + 1,
                          L.score_all_current, L.score_all, L.score_r, L.score_e,
                          readOk, data)
        ELSE IF startswith(reply, TOKEN_UNCLEAR)
        THEN Hint(st, mode, verdict)
        ELSE Unrecognised(st, mode, verdict)

\* the testing branch chosen by user_mode, applied to locals L
Testing(st, L, reply, readOk, data) ==
    IF L.mode = MODE_TESTING_FIRST THEN TestingFirst(st, L, reply, readOk, data)
    ELSE IF L.mode = MODE_TESTING_FORWARD THEN TestingForward(st, L, reply, readOk, data)
    ELSE TestingBackward(st, L, reply, readOk, data)

----------------------------------------------------------------------------
(* handle_message, one message processed from its first line to its return *)

\* a slip: the store is assigned anew for a caller seen for the first time
WithUser_mut(states, u) == IF u \in DOMAIN states THEN states ELSE [x \in {u} |-> MainMenuState]

\* app.py:230-231: a caller seen for the first time gets {"mode": MODE_MAIN_MENU}
WithUser(states, u) == IF u \in DOMAIN states THEN states ELSE Put(states, u, MainMenuState)

ModeOf(u) == WithUser(user_states, u)[u]["mode"]

\* the birth dates a caller can send in MODE_AGING, by what app.py:271-274
\* makes of them: no YYYY-MM-DD in the text, digits that are no calendar date,
\* or a date with the age in months that calculate_age returns for it
NoDate == [kind |-> "nodate", months |-> 0]
BadDate == [kind |-> "baddate", months |-> 0]

\* a calendar date, and the digits YYYY-MM-DD that the pattern of app.py:271
\* finds in a message
Date(y, m, d) == [y |-> y, m |-> m, d |-> d]

IsLeap(y) == (y % 4 = 0 /\ y % 100 # 0) \/ y % 400 = 0

DaysInMonth(y, m) ==
    CASE m \in {4, 6, 9, 11} -> 30
      [] m = 2 -> IF IsLeap(y) THEN 29 ELSE 28
      [] OTHER -> 31

\* datetime.strptime(digits, "%Y-%m-%d") does not raise ValueError
IsCalendarDate(dt) ==
    /\ dt.y \in 1..9999
    /\ dt.m \in 1..12
    /\ dt.d \in 1..DaysInMonth(dt.y, dt.m)

\* a is a later day than b
After(a, b) ==
    \/ a.y > b.y
    \/ a.y = b.y /\ a.m > b.m
    \/ a.y = b.y /\ a.m = b.m /\ a.d > b.d

\* app.py:114-139, for a birthdate that strptime accepts
calculate_age(birthdate, today) ==
    LET years0 == today.y - birthdate.y
        months0 == today.m - birthdate.m
        days0 == today.d - birthdate.d
        \* today.replace(day=1) - timedelta(days=1)
        last_month_end ==
            IF today.m = 1 THEN DaysInMonth(today.y - 1, 12)
            ELSE DaysInMonth(today.y, today.m - 1)
        months1 == IF days0 < 0 THEN months0 - 1 ELSE months0
        days == IF days0 < 0 THEN days0 + last_month_end ELSE days0
        years == IF months1 < 0 THEN years0 - 1 ELSE years0
        months == IF months1 < 0 THEN months1 + 12 ELSE months1
        total_months == years * 12 + months
    IN  IF days >= 30 THEN total_months + 1 ELSE total_months

\* the text of a message in MODE_AGING: without the pattern, or with digits
NoDateText == [kind |-> "nodate", y |-> 0, m |-> 0, d |-> 0]
Digits(dt) == [kind |-> "digits", y |-> dt.y, m |-> dt.m, d |-> dt.d]

\* app.py:271-274: what the handler makes of the text on the day today
ParseBirth(text, today) ==
    IF text.kind = "nodate" THEN NoDate
    ELSE IF ~IsCalendarDate(text) THEN BadDate
    ELSE [kind |-> "date", months |-> calculate_age(text, today)]

\* the days on which messages are handled: the first of a month that follows
\* a month of 31 days, and the day after
Todays == {Date(2025, 8, 1), Date(2025, 8, 2)}

\* the same day of the month, k months earlier
MonthsBefore(dt, k) ==
    LET n == dt.y * 12 + (dt.m - 1) - k
    IN  Date(n \div 12, (n % 12) + 1, dt.d)

\* ages at which a group begins, the ceiling and the month above it
AgeSteps == {get_min_age_for_group(g) : g \in Groups} \cup {MaxMonths, MaxMonths + 1}

\* the texts sent in MODE_AGING: no date; digits that are no calendar date;
\* birthdays AgeSteps months before August 2025; two days around the
\* ceiling; birth dates after the day of the message
BirthTexts ==
    {NoDateText, Digits(Date(2025, 2, 30)), Digits(Date(2025, 13, 1))}
    \cup {Digits(MonthsBefore(Date(2025, 8, 1), k)) : k \in AgeSteps}
    \cup {Digits(Date(2022, 7, 2)), Digits(Date(2022, 7, 3))}
    \cup {Digits(Date(2025, 8, 2)), Digits(Date(2025, 8, 3)), Digits(Date(2026, 1, 1))}

BirthInputs == {ParseBirth(text, today) : text \in BirthTexts, today \in Todays}

\* a slip: only the mode is written and the rest of the session is kept
Back_mut(u) ==
    /\ user_states' = Put(user_states, u, Put(WithUser(user_states, u)[u], "mode", MODE_MAIN_MENU))
    /\ out' = By(u, Sent("menu", ModeOf(u), ""))
    /\ UNCHANGED sheet

\* app.py:236-240
Back(u) ==
    /\ user_states' = Put(user_states, u, MainMenuState)
    /\ out' = By(u, Sent("menu", ModeOf(u), ""))
    /\ UNCHANGED sheet

\* app.py:243-256
MainMenu(u, cmd) ==
    /\ cmd # CMD_BACK
    /\ ModeOf(u) = MODE_MAIN_MENU
    /\ user_states' =
          IF cmd = CMD_SCREEN THEN Put(user_states, u, [mode |-> MODE_AGING])
          ELSE IF cmd = CMD_TIPS THEN Put(user_states, u, [mode |-> MODE_TIPS])
          ELSE IF cmd = CMD_TREATMENT THEN Put(user_states, u, [mode |-> MODE_TREATMENT])
          ELSE WithUser(user_states, u)
    /\ out' = By(u, Sent(IF cmd = CMD_SCREEN THEN "prompt" ELSE "menu", MODE_MAIN_MENU, ""))
    /\ UNCHANGED sheet

\* app.py:259-266
TipsTreatment(u, cmd) ==
    /\ cmd # CMD_BACK
    /\ ModeOf(u) \in {MODE_TIPS, MODE_TREATMENT}
    /\ out' = By(u, Sent("menu", ModeOf(u), ""))
    /\ UNCHANGED <<user_states, sheet>>

\* a slip: the ceiling itself is turned away
OverCeiling_mut(total_months) == total_months >= MaxMonths

\* app.py:276
OverCeiling(total_months) == total_months > MaxMonths

\* app.py:269-323
Aging(u, birth, readOk) ==
    /\ ModeOf(u) = MODE_AGING
    /\ IF birth = NoDate
       THEN /\ out' = By(u, Sent("prompt", MODE_AGING, ""))
            /\ UNCHANGED user_states
       ELSE IF birth = BadDate
       THEN /\ out' = By(u, Sent("fault", MODE_AGING, ""))
            /\ UNCHANGED user_states
       ELSE LET total_months == birth.months
                questions == get_questions_by_age(sheet, total_months, readOk)
            IN  IF OverCeiling(total_months)
                THEN /\ out' = By(u, Sent("range", MODE_AGING, ""))
                     /\ user_states' = Put(user_states, u, MainMenuState)
                ELSE IF questions # None
                THEN /\ out' = By(u, Looked(Sent("question", MODE_AGING, ""), questions))
                     /\ user_states' = Put(user_states, u, NewSession(total_months, questions))
                ELSE /\ out' = By(u, Looked(Sent("config_error", MODE_AGING, ""), questions))
                     /\ user_states' = Put(user_states, u, MainMenuState)
    /\ UNCHANGED sheet

\* app.py:326-824: an answer in a testing mode, with the reset that follows
\* the report of a finalization
Answer(u, reply, readOk) ==
    /\ ModeOf(u) \in TestingModes
    /\ LET st == user_states[u]
           L == LoadLocals(st)
       IN  IF ~CanReadQuestion(L)
           THEN /\ out' = By(u, Sent("fault", L.mode, ""))
                /\ UNCHANGED user_states
           ELSE LET R == Testing(st, L, reply, readOk, sheet)
                IN  /\ out' = By(u, R.out)
                    /\ user_states' =
                          Put(user_states, u,
                              IF R.then = "reset" THEN MainMenuState ELSE R.st)
    /\ UNCHANGED sheet

AnswerFirst(u, reply, readOk) ==
    ModeOf(u) = MODE_TESTING_FIRST /\ Answer(u, reply, readOk)

AnswerForward(u, reply, readOk) ==
    ModeOf(u) = MODE_TESTING_FORWARD /\ Answer(u, reply, readOk)

AnswerBackward(u, reply, readOk) ==
    ModeOf(u) = MODE_TESTING_BACKWARD /\ Answer(u, reply, readOk)

NoLoc == [user |-> "", L |-> NoLocals]

Init ==
    /\ user_states = <<>>
    /\ sheet = SheetRows
    /\ out = NoOutput
    /\ pc = [t \in Threads |-> "idle"]
    /\ loc = [t \in Threads |-> NoLoc]
    /\ nmsg = 0

\* messages handled one at a time
Next ==
    \E u \in Users :
        \/ Back(u) /\ UNCHANGED <<pc, loc, nmsg>>
        \/ \E cmd \in Commands : MainMenu(u, cmd) /\ UNCHANGED <<pc, loc, nmsg>>
        \/ \E cmd \in Commands : TipsTreatment(u, cmd) /\ UNCHANGED <<pc, loc, nmsg>>
        \/ \E birth \in BirthInputs, readOk \in BOOLEAN :
              Aging(u, birth, readOk) /\ UNCHANGED <<pc, loc, nmsg>>
        \/ \E reply \in Replies, readOk \in BOOLEAN :
              AnswerFirst(u, reply, readOk) /\ UNCHANGED <<pc, loc, nmsg>>
        \/ \E reply \in Replies, readOk \in BOOLEAN :
              AnswerForward(u, reply, readOk) /\ UNCHANGED <<pc, loc, nmsg>>
        \/ \E reply \in Replies, readOk \in BOOLEAN :
              AnswerBackward(u, reply, readOk) /\ UNCHANGED <<pc, loc, nmsg>>

Spec == Init /\ [][Next]_vars

TypeOK ==
    /\ DOMAIN user_states \subseteq Users
    /\ \A u \in DOMAIN user_states :
          user_states[u]["mode"] \in
              TestingModes \cup {MODE_MAIN_MENU, MODE_AGING, MODE_TIPS, MODE_TREATMENT}

----------------------------------------------------------------------------
(* Concurrent delivery.  handle_message takes no lock on user_states, and  *)
(* the server runs each request in a thread of its own (app.py:828), so a  *)
(* second message of a caller can be handled while the first one waits for *)
(* the classifier.  A testing branch is cut at its blocking calls: it      *)
(* loads its locals, waits for chat_with_deepseek, writes its results, and *)
(* at a finalization sends the report before the assignment that resets    *)
(* the session.                                                            *)

\* app.py:327-363: the locals are loaded, then the classifier is called
BeginAnswer(t, u) ==
    /\ nmsg < MaxMsgs
    /\ pc[t] = "idle"
    /\ ModeOf(u) \in TestingModes
    /\ LET L == LoadLocals(user_states[u])
       IN  IF ~CanReadQuestion(L)
           THEN /\ out' = By(u, Sent("fault", L.mode, ""))
                /\ UNCHANGED <<pc, loc>>
           ELSE /\ out' = By(u, Sent("wait", L.mode, ""))
                /\ pc' = [pc EXCEPT ![t] = "classify"]
                /\ loc' = [loc EXCEPT ![t] = [user |-> u, L |-> L]]
    /\ nmsg' = nmsg + 1
    /\ UNCHANGED <<user_states, sheet>>

\* app.py:363-824 up to the last reply: the classifier has answered
FinishAnswer(t, reply, readOk) ==
    /\ pc[t] = "classify"
    /\ LET u == loc[t].user
           R == Testing(user_states[u], loc[t].L, reply, readOk, sheet)
       IN  /\ user_states' = Put(user_states, u, R.st)
           /\ out' = By(u, R.out)
           /\ pc' = [pc EXCEPT ![t] = IF R.then = "reset" THEN "reset" ELSE "idle"]
           /\ loc' = IF R.then = "reset" THEN loc ELSE [loc EXCEPT ![t] = NoLoc]
    /\ UNCHANGED <<sheet, nmsg>>

\* app.py:456, 499, 620, 647, 796, 823: the assignment after the reply
ResetAfterReply(t) ==
    /\ pc[t] = "reset"
    /\ user_states' = Put(user_states, loc[t].user, MainMenuState)
    /\ pc' = [pc EXCEPT ![t] = "idle"]
    /\ loc' = [loc EXCEPT ![t] = NoLoc]
    /\ UNCHANGED <<sheet, out, nmsg>>

\* the branches of handle_message that make no blocking call between
\* reading the mode and writing the session
Counted == nmsg < MaxMsgs /\ nmsg' = nmsg + 1 /\ UNCHANGED <<pc, loc>>

NextConcurrent ==
    \/ \E u \in Users : Back(u) /\ Counted
    \/ \E u \in Users, cmd \in Commands : MainMenu(u, cmd) /\ Counted
    \/ \E u \in Users, cmd \in Commands : TipsTreatment(u, cmd) /\ Counted
    \/ \E u \in Users, birth \in BirthInputs, readOk \in BOOLEAN :
          Aging(u, birth, readOk) /\ Counted
    \/ \E t \in Threads, u \in Users : BeginAnswer(t, u)
    \/ \E t \in Threads, reply \in Replies, readOk \in BOOLEAN : FinishAnswer(t, reply, readOk)
    \/ \E t \in Threads : ResetAfterReply(t)

SpecConcurrent == Init /\ [][NextConcurrent]_vars

----------------------------------------------------------------------------
(* The band function on its own: evaluate_development applied to every     *)
(* group and every composite up to MaxComposite; out holds the composite,  *)
(* the group and the band the way a report does.                           *)

\* app.py:436, 479, 627, 776, 803: evaluate_development(score_all_final, original_group)
Banded(score_all_final, original_group) ==
    [Sent("report", "", "") EXCEPT
        !.score = score_all_final,
        !.group = original_group,
        !.result = evaluate_development(score_all_final, original_group)]

Evaluate(score_all_final, original_group) ==
    /\ out' = Banded(score_all_final, original_group)
    /\ UNCHANGED <<user_states, sheet, pc, loc, nmsg>>

NextBand ==
    \E score_all_final \in 0..MaxComposite, original_group \in Groups :
        Evaluate(score_all_final, original_group)

SpecBand == Init /\ [][NextBand]_vars

----------------------------------------------------------------------------
(* Properties.  A step is described by the session before it               *)
(* (user_states[u]), the session after it (user_states'[u]) and what the   *)
(* handler sent (out').                                                    *)

\* the items of the group being administered that are in the passed ledger
PassedInGroup(s) ==
    Cardinality({i \in DOMAIN s["questions"] :
                    \E j \in DOMAIN s["right_questions"] :
                        s["right_questions"][j] = s["questions"][i].number})

\* this step classified the last item of caller u's group as Pass or Fail
LastItemAnswered(u, mode) ==
    /\ u \in DOMAIN user_states
    /\ user_states[u]["mode"] = mode
    /\ out'.user = u
    /\ out'.mode = mode
    /\ out'.verdict \in {"Pass", "Fail"}
    /\ user_states[u]["current_index"] + 1 = Len(user_states[u]["questions"])

PassNow == IF out'.verdict = "Pass" THEN 1 ELSE 0

\* passes of the group that this step completes
GroupPasses(u) == PassedInGroup(user_states[u]) + PassNow

PerfectGroup(u) == GroupPasses(u) = Len(user_states[u]["questions"])

LastItemType(u) == user_states[u]["questions"][Len(user_states[u]["questions"])].type

\* the accumulated scores after this step's answer
TotalNow(u) == user_states[u]["score_all"] + PassNow
ReceptiveNow(u) ==
    user_states[u]["score_r"] + (IF PassNow = 1 /\ LastItemType(u) # "E" THEN 1 ELSE 0)
ExpressiveNow(u) ==
    user_states[u]["score_e"] + (IF PassNow = 1 /\ LastItemType(u) # "R" THEN 1 ELSE 0)

MovedTo(u, mode, group) ==
    /\ user_states'[u]["mode"] = mode
    /\ user_states'[u]["group"] = group
    /\ user_states'[u]["current_index"] = 0
    /\ out'.kind # "report"

ScoredWith(u, composite) ==
    /\ out'.kind = "report"
    /\ out'.score = composite
    /\ user_states'[u] = MainMenuState

Scored(u) == out'.kind = "report" /\ user_states'[u] = MainMenuState

Aborted(u) == out'.kind = "config_error" /\ user_states'[u] = MainMenuState

\* the table's cumulative score of the groups strictly below g
OffsetBelow(g) == IF g = 1 THEN 0 ELSE group_all_score_mapping[g - 1]

\* C1: when the last item of the first group is classified Pass or Fail,
\* exactly one of four outcomes follows: all passed and group < 9: ForwardTest
\* at group + 1, index 0; all passed and group = 9: scored with the group's
\* total + 44; a miss and group > 1: BackwardTest at group - 1, index 0; a
\* miss and group = 1: scored with the group's total.
Thm_C1_FirstGroupOutcome ==
    [][\A u \in Users :
          LastItemAnswered(u, MODE_TESTING_FIRST) =>
              LET group == user_states[u]["group"]
              IN  IF PerfectGroup(u)
                  THEN IF group < 9
                       THEN MovedTo(u, MODE_TESTING_FORWARD, group + 1)
                       ELSE ScoredWith(u, GroupPasses(u) + 44)
                  ELSE IF group > 1
                       THEN MovedTo(u, MODE_TESTING_BACKWARD, group - 1)
                       ELSE ScoredWith(u, GroupPasses(u))]_vars

\* a perfect group 9 was scored from the first group with the offset 44
Wit_C1_TopGroupScored ==
    /\ out.kind = "report"
    /\ out.mode = MODE_TESTING_FIRST
    /\ out.group = 9
    /\ out.score > 44
    /\ out.wrong = <<>>

ForwardAdvanced(u) ==
    /\ MovedTo(u, MODE_TESTING_FORWARD, user_states[u]["group"] + 1)
    /\ user_states'[u]["score_all_current"] = 0
    /\ user_states'[u]["score_all"] = TotalNow(u)
    /\ user_states'[u]["score_r"] = ReceptiveNow(u)
    /\ user_states'[u]["score_e"] = ExpressiveNow(u)

\* C2 as stated: in ForwardTest, on completing a group, a perfect group below
\* group 9 moves to group + 1 with index and per-group counter 0 and the
\* totals kept; every other case is scored.
Orig_C2_ForwardAdvanceOrScore ==
    [][\A u \in Users :
          LastItemAnswered(u, MODE_TESTING_FORWARD) =>
              IF PerfectGroup(u) /\ user_states[u]["group"] < 9
              THEN ForwardAdvanced(u)
              ELSE Scored(u)]_vars

\* C2 amended: the perfect group below group 9 moves on when the lookup of
\* the next group returns items; when it returns nothing the session is
\* aborted to the main menu without a score; every other case is scored.
Thm_C2_ForwardAdvanceOrScore ==
    [][\A u \in Users :
          LastItemAnswered(u, MODE_TESTING_FORWARD) =>
              IF PerfectGroup(u) /\ user_states[u]["group"] < 9
              THEN IF out'.lookup = "items" THEN ForwardAdvanced(u)
                   ELSE out'.lookup = "empty" /\ Aborted(u)
              ELSE Scored(u)]_vars

\* a forward group was passed and the walk moved to the next one
Wit_C2_ForwardAdvanced ==
    /\ out.mode = MODE_TESTING_FORWARD
    /\ out.verdict = "Pass"
    /\ out.lookup = "items"
    /\ \E u \in DOMAIN user_states :
          /\ user_states[u]["mode"] = MODE_TESTING_FORWARD
          /\ user_states[u]["current_index"] = 0
          /\ user_states[u]["score_all"] > 0
          /\ user_states[u]["group"] > user_states[u]["original_group"] + 1

BackwardRetreated(u) ==
    /\ MovedTo(u, MODE_TESTING_BACKWARD, user_states[u]["group"] - 1)
    /\ user_states'[u]["score_all_current"] = 0
    /\ user_states'[u]["score_all"] = TotalNow(u)
    /\ user_states'[u]["score_r"] = ReceptiveNow(u)
    /\ user_states'[u]["score_e"] = ExpressiveNow(u)

\* C3 as stated: in BackwardTest, on completing a group, a group with a miss
\* above group 1 moves to group - 1 with index and per-group counter 0 and
\* the totals kept; every other case is scored.
Orig_C3_BackwardRetreatOrScore ==
    [][\A u \in Users :
          LastItemAnswered(u, MODE_TESTING_BACKWARD) =>
              IF ~PerfectGroup(u) /\ user_states[u]["group"] > 1
              THEN BackwardRetreated(u)
              ELSE Scored(u)]_vars

\* C3 amended: the group with a miss above group 1 moves down when the lookup
\* of the previous group returns items; when it returns nothing the session
\* is aborted to the main menu without a score; every other case is scored.
Thm_C3_BackwardRetreatOrScore ==
    [][\A u \in Users :
          LastItemAnswered(u, MODE_TESTING_BACKWARD) =>
              IF ~PerfectGroup(u) /\ user_states[u]["group"] > 1
              THEN IF out'.lookup = "items" THEN BackwardRetreated(u)
                   ELSE out'.lookup = "empty" /\ Aborted(u)
              ELSE Scored(u)]_vars

\* a backward group had a miss and the walk moved to the group below
Wit_C3_BackwardRetreated ==
    /\ out.mode = MODE_TESTING_BACKWARD
    /\ out.verdict \in {"Pass", "Fail"}
    /\ out.lookup = "items"
    /\ \E u \in DOMAIN user_states :
          /\ user_states[u]["mode"] = MODE_TESTING_BACKWARD
          /\ user_states[u]["current_index"] = 0
          /\ user_states[u]["score_all"] > 0
          /\ user_states[u]["group"] < user_states[u]["original_group"] - 1

\* the group of the sheet row with item number n
ItemGroup(n) == sheet[CHOOSE i \in DOMAIN sheet : sheet[i].number = n].group

\* the entries of ledger that belong to groups above g
PassesAbove(ledger, g) == Cardinality({j \in DOMAIN ledger : ItemGroup(ledger[j]) > g})

FinalizedFrom(u, mode) == LastItemAnswered(u, mode) /\ out'.kind = "report"

EnteredFrom(u, mode) == LastItemAnswered(u, MODE_TESTING_FIRST) /\ user_states'[u]["mode"] = mode

\* C6 as stated: on FirstGroupTest -> BackwardTest the total, receptive and
\* expressive scores are all reset to zero.
Orig_C6_BackwardEntryScores ==
    [][\A u \in Users :
          EnteredFrom(u, MODE_TESTING_BACKWARD) =>
              /\ user_states'[u]["score_all"] = 0
              /\ user_states'[u]["score_r"] = 0
              /\ user_states'[u]["score_e"] = 0]_vars

\* C6 amended: on FirstGroupTest -> BackwardTest the receptive and expressive
\* scores are reset to zero and the per-group counter is zero, and the total
\* keeps the passes of the first group, which so count in the composite of
\* the backward walk.
Thm_C6_BackwardEntryScores ==
    [][\A u \in Users :
          EnteredFrom(u, MODE_TESTING_BACKWARD) =>
              /\ user_states'[u]["score_all"] = GroupPasses(u)
              /\ user_states'[u]["score_all_current"] = 0
              /\ user_states'[u]["score_r"] = 0
              /\ user_states'[u]["score_e"] = 0]_vars

\* BackwardTest was entered with a pass of the first group in the total
Wit_C6_BackwardEntered ==
    /\ out.mode = MODE_TESTING_FIRST
    /\ out.lookup = "items"
    /\ \E u \in DOMAIN user_states :
          /\ user_states[u]["mode"] = MODE_TESTING_BACKWARD
          /\ user_states[u]["current_index"] = 0
          /\ user_states[u]["score_all"] > 0
          /\ user_states[u]["wrong_questions"] # <<>>

\* C7 as stated: on FirstGroupTest -> ForwardTest the per-group counter is
\* zero and the total, receptive and expressive scores are carried forward
\* unchanged.
Orig_C7_ForwardEntryScores ==
    [][\A u \in Users :
          EnteredFrom(u, MODE_TESTING_FORWARD) =>
              /\ user_states'[u]["score_all_current"] = 0
              /\ user_states'[u]["score_all"] = TotalNow(u)
              /\ user_states'[u]["score_r"] = ReceptiveNow(u)
              /\ user_states'[u]["score_e"] = ExpressiveNow(u)]_vars

\* C7 amended: on FirstGroupTest -> ForwardTest the per-group counter is
\* zero and the total, receptive and expressive scores are reset to zero;
\* the passes of the first group stay in the passed ledger only.
Thm_C7_ForwardEntryScores ==
    [][\A u \in Users :
          EnteredFrom(u, MODE_TESTING_FORWARD) =>
              /\ user_states'[u]["score_all_current"] = 0
              /\ user_states'[u]["score_all"] = 0
              /\ user_states'[u]["score_r"] = 0
              /\ user_states'[u]["score_e"] = 0
              /\ Len(user_states'[u]["right_questions"]) = GroupPasses(u)]_vars

\* ForwardTest was entered after a perfect first group
Wit_C7_ForwardEntered ==
    /\ out.mode = MODE_TESTING_FIRST
    /\ out.verdict = "Pass"
    /\ out.lookup = "items"
    /\ \E u \in DOMAIN user_states :
          /\ user_states[u]["mode"] = MODE_TESTING_FORWARD
          /\ user_states[u]["current_index"] = 0
          /\ user_states[u]["right_questions"] # <<>>
          /\ user_states[u]["group"] = user_states[u]["original_group"] + 1

\* C8: original_group is set when the first group is entered, to the group
\* of the first item; no answer and no group transition changes it; every
\* report takes its band from the thresholds of original_group.
Thm_C8_OriginalGroupFixed ==
    [][\A u \in Users :
          /\ (/\ out'.user = u
              /\ out'.mode = MODE_AGING
              /\ user_states'[u]["mode"] = MODE_TESTING_FIRST)
             => /\ user_states'[u]["original_group"] = user_states'[u]["questions"][1].group
                /\ user_states'[u]["group"] = user_states'[u]["original_group"]
          /\ (/\ u \in DOMAIN user_states
              /\ user_states[u]["mode"] \in TestingModes
              /\ user_states'[u]["mode"] \in TestingModes)
             => user_states'[u]["original_group"] = user_states[u]["original_group"]
          /\ (/\ u \in DOMAIN user_states
              /\ user_states[u]["mode"] \in TestingModes
              /\ out'.user = u
              /\ out'.kind = "report")
             => /\ out'.group = user_states[u]["original_group"]
                /\ out'.result =
                      evaluate_development(out'.score, user_states[u]["original_group"])]_vars

\* a report was made after the walk had moved two groups away or more
Wit_C8_ReportFarFromOrigin ==
    /\ out.kind = "report"
    /\ (out.at > out.group + 1 \/ out.at < out.group - 1)
    /\ out.result = evaluate_development(out.score, out.group)
    /\ out.result # evaluate_development(out.score, out.at)

\* C9: between two messages of a caller, the index of a session in a testing
\* mode is at least 0 and below len(questions): equality was resolved by the
\* message that reached it, so the next read of questions[current_index] is
\* in range.
Orig_C9_IndexInRange ==
    \A u \in DOMAIN user_states :
        user_states[u]["mode"] \in TestingModes =>
            /\ 0 <= user_states[u]["current_index"]
            /\ user_states[u]["current_index"] <= Len(user_states[u]["questions"])
            /\ user_states[u]["current_index"] # Len(user_states[u]["questions"])

Range(seq) == {seq[i] : i \in DOMAIN seq}

NoDuplicates(seq) == Cardinality(Range(seq)) = Len(seq)

\* the items of the group being administered that are in either ledger
AnsweredInGroup(s) ==
    Cardinality({i \in DOMAIN s["questions"] :
                    s["questions"][i].number
                        \in Range(s["right_questions"]) \cup Range(s["wrong_questions"])})

\* what holds of a session after any number of messages handled one after
\* the other: every item id is in the ledgers at most once, the index counts
\* the answered items of the group, and the total counts the passes
SeriallyConsistent(s) ==
    /\ NoDuplicates(s["right_questions"] \o s["wrong_questions"])
    /\ s["current_index"] = AnsweredInGroup(s)
    /\ s["score_all"] =
          IF s["mode"] = MODE_TESTING_FORWARD
          THEN PassesAbove(s["right_questions"], s["original_group"])
          ELSE Len(s["right_questions"])

\* C10: a session reached with messages of one caller delivered concurrently
\* is one that handling the messages one after the other reaches: no update
\* of the index or of a score is lost, no item id is recorded twice, no
\* stale index is written into a group another message loaded.
Orig_C10_ConcurrentAsSerial ==
    \A u \in DOMAIN user_states :
        user_states[u]["mode"] \in TestingModes => SeriallyConsistent(user_states[u])

\* this step handled an answer of caller u whose item was read and whose
\* classification came out as verdict
Classified(u, verdict) ==
    /\ u \in DOMAIN user_states
    /\ user_states[u]["mode"] \in TestingModes
    /\ out'.user = u
    /\ out'.mode = user_states[u]["mode"]
    /\ out'.verdict = verdict

\* C11: an Unclear classification sends a hint and leaves the caller's whole
\* session (index, total, per-group, receptive and expressive counters, both
\* ledgers, mode, group, questions) exactly as it was; so any number of
\* consecutive Unclear classifications leave it as before the first of them.
Thm_C11_UnclearIdempotent ==
    [][\A u \in Users :
          Classified(u, "Unclear") =>
              /\ out'.kind = "hint"
              /\ user_states'[u] = user_states[u]]_vars

\* a hint was sent in the middle of a backward group, with both ledgers
\* non-empty and a positive total
Wit_C11_HintMidGroup ==
    /\ out.kind = "hint"
    /\ out.verdict = "Unclear"
    /\ \E u \in DOMAIN user_states :
          /\ out.user = u
          /\ user_states[u]["mode"] = MODE_TESTING_BACKWARD
          /\ user_states[u]["current_index"] > 0
          /\ user_states[u]["score_all"] > 0
          /\ user_states[u]["wrong_questions"] # <<>>

\* the reply starts with one of the three category tokens
IsCategory(reply) ==
    \E token \in {TOKEN_PASS, TOKEN_FAIL, TOKEN_UNCLEAR} : startswith(reply, token)

\* C12: when the classifier's text starts with none of the three tokens (the
\* apology returned after the last failed attempt included), the answer is
\* met with the "cannot judge" message and every session is left exactly as
\* it was: no pass, no miss, no advance.  (Either the step is of that kind,
\* or it is not the handling of such a reply.)
Thm_C12_UnavailableNoChange ==
    [][\A u \in Users :
          (/\ u \in DOMAIN user_states
           /\ user_states[u]["mode"] \in TestingModes
           /\ CanReadQuestion(LoadLocals(user_states[u])))
          => \/ /\ user_states' = user_states
                /\ out'.kind = "unrecognised"
                /\ out'.verdict = "Other"
             \/ ~ \E reply \in {r \in Replies : ~IsCategory(r)}, readOk \in BOOLEAN :
                     out'.verdict = Verdict(reply) /\ Answer(u, reply, readOk)]_vars

\* the "cannot judge" message was sent in the middle of a forward group
Wit_C12_UnrecognisedMidGroup ==
    /\ out.kind = "unrecognised"
    /\ \E u \in DOMAIN user_states :
          /\ out.user = u
          /\ user_states[u]["mode"] = MODE_TESTING_FORWARD
          /\ user_states[u]["current_index"] > 0
          /\ user_states[u]["score_all"] > 0

\* C13: whenever the lookup of the next group returns nothing during a group
\* transition (first -> forward, first -> backward, forward -> next group,
\* backward -> previous group), the session is aborted to the main menu with
\* the configuration-error message; it is not left in a testing mode without
\* items and no report is made.
Orig_C13_EmptyLookupAborts ==
    [][\A u \in Users :
          (/\ u \in DOMAIN user_states
           /\ user_states[u]["mode"] \in TestingModes
           /\ out'.user = u
           /\ out'.lookup = "empty")
          => /\ out'.kind = "config_error"
             /\ user_states'[u] = MainMenuState]_vars

\* C14: every message, in every mode and for every outcome of the date
\* parse, the item lookup and the classifier, is answered with a message to
\* the caller; no exception leaves handle_message.
Orig_C14_NoFaultEscapes == out.kind \notin {"fault", "silent"}

\* the text holds no calendar date, or a date after the day of the message
InvalidBirth(text, today) ==
    \/ text.kind = "nodate"
    \/ ~IsCalendarDate(text)
    \/ After(text, today)

\* C15: a birth date that is no calendar date, or that lies after the day of
\* the message, is answered with the request for the birth date again: the
\* session stays in MODE_AGING, no item lookup is made and no testing mode is
\* entered.
Orig_C15_InvalidDateReprompt ==
    [][\A u \in Users :
        (u \in DOMAIN user_states /\ user_states[u]["mode"] = MODE_AGING) =>
        \A text \in BirthTexts, today \in Todays, readOk \in BOOLEAN :
          (InvalidBirth(text, today) /\ Aging(u, ParseBirth(text, today), readOk))
          => /\ out'.kind = "prompt"
             /\ out'.lookup = ""
             /\ user_states'[u] = [mode |-> MODE_AGING]]_vars

\* C16: a birth date whose computed age is above 36 months is answered with
\* the referral and the session goes from MODE_AGING to the main menu, with
\* no lookup and no testing mode; at exactly 36 months the lookup is made and,
\* when it returns items, the first group (group 9) is entered.
Thm_C16_CeilingAt36 ==
    [][\A u \in Users :
        (u \in DOMAIN user_states /\ user_states[u]["mode"] = MODE_AGING) =>
        \A text \in BirthTexts, today \in Todays, readOk \in BOOLEAN :
          (/\ text.kind = "digits"
           /\ IsCalendarDate(text)
           /\ Aging(u, ParseBirth(text, today), readOk))
          => LET age == calculate_age(text, today)
             IN  /\ age > 36 =>
                       /\ out'.kind = "range"
                       /\ out'.lookup = ""
                       /\ user_states'[u] = MainMenuState
                 /\ age = 36 =>
                       /\ out'.kind # "range"
                       /\ out'.lookup # ""
                       /\ readOk =>
                             /\ user_states'[u]["mode"] = MODE_TESTING_FIRST
                             /\ user_states'[u]["total_months"] = 36
                             /\ user_states'[u]["group"] = 9]_vars

\* a child older than 36 months was referred and the session is at the menu
Wit_C16_TurnedAway ==
    /\ out.kind = "range"
    /\ out.mode = MODE_AGING
    /\ out.user \in DOMAIN user_states
    /\ user_states[out.user] = MainMenuState

\* the session of caller u is in a testing mode after the step, one group up
GroupUpByOne(u) ==
    /\ user_states'[u]["mode"] \in TestingModes
    /\ user_states'[u]["group"] = user_states[u]["group"] + 1
    /\ out'.kind # "report"

\* C17 as stated: in every testing mode, completing a group with every item
\* passed moves the group up by exactly one or, at group 9, finalizes;
\* completing group 1 with a miss finalizes.
Orig_C17_PerfectGroupAdvances ==
    [][\A u \in Users, mode \in TestingModes :
          LastItemAnswered(u, mode) =>
              /\ PerfectGroup(u) =>
                    \/ GroupUpByOne(u)
                    \/ user_states[u]["group"] = 9 /\ Scored(u)
              /\ (~PerfectGroup(u) /\ user_states[u]["group"] = 1) => Scored(u)]_vars

\* C17 amended: in FirstGroupTest and ForwardTest, completing a group with
\* every item passed moves the group up by exactly one or, at group 9,
\* finalizes, except that in ForwardTest an empty lookup of the next group
\* aborts the session to the main menu; in BackwardTest such a group
\* finalizes at that group and the group is not moved; completing group 1
\* with a miss finalizes at group 1.
Thm_C17_PerfectGroupAdvances ==
    [][\A u \in Users, mode \in TestingModes :
          LastItemAnswered(u, mode) =>
              LET group == user_states[u]["group"]
              IN  /\ (PerfectGroup(u) /\ mode = MODE_TESTING_FIRST) =>
                        IF group < 9 THEN GroupUpByOne(u) ELSE Scored(u) /\ out'.at = 9
                  /\ (PerfectGroup(u) /\ mode = MODE_TESTING_FORWARD) =>
                        IF group < 9
                        THEN IF out'.lookup = "empty" THEN Aborted(u) ELSE GroupUpByOne(u)
                        ELSE Scored(u) /\ out'.at = 9
                  /\ (PerfectGroup(u) /\ mode = MODE_TESTING_BACKWARD) =>
                        Scored(u) /\ out'.at = group
                  /\ (~PerfectGroup(u) /\ group = 1) =>
                        Scored(u) /\ out'.at = 1]_vars

\* a backward walk was stopped and scored by a group below 9 in which every
\* item was passed
Wit_C17_BackwardPerfectStops ==
    /\ out.kind = "report"
    /\ out.mode = MODE_TESTING_BACKWARD
    /\ out.verdict = "Pass"
    /\ out.at < 9
    /\ out.right # <<>>
    /\ out.wrong # <<>>

\* the five bands in their order
BandRank(band) ==
    CASE band = "SuspectedDelay" -> 1
      [] band = "PossiblyBehind" -> 2
      [] band = "Average" -> 3
      [] band = "SlightlyAhead" -> 4
      [] band = "Ahead" -> 5

Bands == {"SuspectedDelay", "PossiblyBehind", "Average", "SlightlyAhead", "Ahead"}

\* the interval of band between the cut-points t (t0..t4 are t[1]..t[5])
InBand(band, composite, t) ==
    CASE band = "SuspectedDelay" -> composite < t[1]
      [] band = "PossiblyBehind" -> t[1] <= composite /\ composite < t[2]
      [] band = "Average" -> t[2] <= composite /\ composite < t[4]
      [] band = "SlightlyAhead" -> t[4] <= composite /\ composite < t[5]
      [] band = "Ahead" -> composite >= t[5]

\* C18: the band of a report is fixed by the composite and the five
\* non-decreasing cut-points of original_group: below t0, t0 to below t1,
\* t1 to below t3, t3 to below t4, t4 and above; every composite lies in
\* exactly one of the five intervals, and for one group a composite that is
\* not smaller never gets a lower band.
Thm_C18_BandByCutPoints ==
    [][LET t == standards[out'.group]
       IN  out'.kind = "report" =>
              /\ \A i \in 1..4 : t[i] <= t[i + 1]
              /\ out'.result \in Bands
              /\ InBand(out'.result, out'.score, t)
              /\ Cardinality({band \in Bands : InBand(band, out'.score, t)}) = 1
              /\ (/\ out.kind = "report"
                  /\ out.group = out'.group
                  /\ out.score <= out'.score)
                 => BandRank(out.result) <= BandRank(out'.result)]_vars

\* a composite between the fourth and the fifth cut-point of group 2 was
\* banded as slightly ahead
Wit_C18_SlightlyAhead ==
    /\ out.kind = "report"
    /\ out.group = 2
    /\ out.score = 12
    /\ out.result = "SlightlyAhead"

\* the item that the answer handled in this step is about
CurrentItem(u) == user_states[u]["questions"][user_states[u]["current_index"] + 1]

\* this step classified an item of caller u as Pass and the session is in
\* the same testing mode after it: the item was not the last of its group,
\* or the forward (backward) walk moved to the next group with its counters
PassedAndKept(u) ==
    /\ Classified(u, "Pass")
    /\ CanReadQuestion(LoadLocals(user_states[u]))
    /\ user_states'[u]["mode"] = user_states[u]["mode"]

\* C19: a passed item typed Both raises the receptive, the expressive and
\* the total counter by exactly 1 each in the same step; a passed Receptive
\* item raises the receptive sub-score and leaves the expressive one; a
\* passed Expressive item raises the expressive sub-score and leaves the
\* receptive one; in all three testing modes.
Thm_C19_TypedSubScores ==
    [][\A u \in Users :
          PassedAndKept(u) =>
              LET s == user_states[u]
                  t == user_states'[u]
                  type == CurrentItem(u).type
              IN  /\ type \in {"R", "E", "RE"}
                  /\ type = "RE" =>
                        /\ t["score_r"] = s["score_r"] + 1
                        /\ t["score_e"] = s["score_e"] + 1
                        /\ t["score_all"] = s["score_all"] + 1
                  /\ type = "R" =>
                        /\ t["score_r"] = s["score_r"] + 1
                        /\ t["score_e"] = s["score_e"]
                  /\ type = "E" =>
                        /\ t["score_e"] = s["score_e"] + 1
                        /\ t["score_r"] = s["score_r"]]_vars

\* the first item of a first group is typed Both and was passed
Wit_C19_BothPassedInFirstGroup ==
    /\ out.verdict = "Pass"
    /\ out.mode = MODE_TESTING_FIRST
    /\ \E u \in DOMAIN user_states :
          /\ out.user = u
          /\ user_states[u]["mode"] = MODE_TESTING_FIRST
          /\ user_states[u]["current_index"] = 1
          /\ user_states[u]["questions"][1].type = "RE"
          /\ user_states[u]["score_r"] = 1
          /\ user_states[u]["score_e"] = 1
          /\ user_states[u]["score_all"] = 1

\* this step classified an item of caller u as Pass that is not the last of
\* its group, so that the step shows the Pass branch and nothing else
PassedMidGroup(u) ==
    /\ Classified(u, "Pass")
    /\ user_states[u]["current_index"] + 1 < Len(user_states[u]["questions"])

\* the passed ledger after a Pass: in the session when it is still in a
\* testing mode, sorted in the report when the step finalized
LedgerGrew(u) ==
    LET ledger == Append(user_states[u]["right_questions"], CurrentItem(u).number)
    IN  /\ user_states'[u]["mode"] \in TestingModes =>
              user_states'[u]["right_questions"] = ledger
        /\ out'.kind = "report" => out'.right = SortSeq(ledger, <)

\* C20 as stated: in each of the three testing modes a Pass raises the total
\* and the per-group current score by exactly 1, appends the item to the
\* passed ledger and advances current_index by exactly 1.
Orig_C20_PassEffects ==
    [][\A u \in Users :
          PassedMidGroup(u) =>
              LET s == user_states[u]
                  t == user_states'[u]
              IN  /\ t["score_all"] = s["score_all"] + 1
                  /\ t["score_all_current"] = s["score_all_current"] + 1
                  /\ t["right_questions"] = Append(s["right_questions"], CurrentItem(u).number)
                  /\ t["current_index"] = s["current_index"] + 1]_vars

\* C20 amended: in ForwardTest and BackwardTest a Pass raises the total and
\* the per-group current score by exactly 1; in FirstGroupTest it raises the
\* total by exactly 1, the total being the group's own score there, and the
\* per-group current score stays 0; in all three modes the item is appended
\* to the passed ledger, the failed ledger is left alone and current_index
\* advances by exactly 1.
Thm_C20_PassEffects ==
    [][\A u \in Users :
          /\ PassedMidGroup(u) =>
                LET s == user_states[u]
                    t == user_states'[u]
                IN  /\ t["score_all"] = s["score_all"] + 1
                    /\ IF s["mode"] = MODE_TESTING_FIRST
                       THEN /\ t["score_all_current"] = 0
                            /\ t["score_all"] = PassedInGroup(t)
                       ELSE /\ t["score_all_current"] = s["score_all_current"] + 1
                            /\ t["score_all_current"] = PassedInGroup(t)
                    /\ t["wrong_questions"] = s["wrong_questions"]
                    /\ t["current_index"] = s["current_index"] + 1
                    /\ t["mode"] = s["mode"]
                    /\ out'.kind = "question"
          /\ (Classified(u, "Pass") /\ CanReadQuestion(LoadLocals(user_states[u])))
                => LedgerGrew(u)]_vars

\* the first item of a forward group was passed
Wit_C20_PassedInForwardGroup ==
    /\ out.kind = "question"
    /\ out.verdict = "Pass"
    /\ out.lookup = ""
    /\ \E u \in DOMAIN user_states :
          /\ out.user = u
          /\ user_states[u]["mode"] = MODE_TESTING_FORWARD
          /\ user_states[u]["current_index"] = 1
          /\ user_states[u]["score_all_current"] = 1
          /\ Len(user_states[u]["right_questions"]) >= 2

----------------------------------------------------------------------------
(* chat_with_deepseek on its own, app.py:46-78: each handler thread runs   *)
(* the retry loop; loc[t] holds the loop's position and, as a history, the *)
(* outcome of every create call made and the number of sleeps taken.       *)

\* app.py:46: retry_count=2
retry_count == 2

\* what one client.chat.completions.create call does (app.py:49-56): it
\* returns a content, or raises an exception whose str(e) holds these words
Returned(content) == [kind |-> "returned", content |-> content, error |-> {}]
Raised(error) == [kind |-> "raised", content |-> <<>>, error |-> error]

ErrorTexts == {{"Unauthorized"}, {"Connection"}, {"Too many"}, {}}

CreateOutcomes == {Returned(content) : content \in Replies} \cup {Raised(error) : error \in ErrorTexts}

\* app.py:63-75: the apology chosen by the words in str(e).
\* "系統暫時無法處理您的回應", "系統回應緩慢", "系統暫時繁忙", "系統處理您的回應時出現問題"
Apology(error) ==
    IF "Unauthorized" \in error \/ "Invalid" \in error
        THEN <<"xi", "tong", "zan", "shi", "wu", "fa">>
    ELSE IF "Timeout" \in error \/ "Connection" \in error
        THEN <<"xi", "tong", "hui", "ying">>
    ELSE IF "Rate" \in error \/ "Too many" \in error
        THEN <<"xi", "tong", "zan", "shi", "fan", "mang">>
    ELSE <<"xi", "tong", "chu", "li">>

\* a slip: the last attempt taken to be the one after retry_count
LastAttempt_mut(attempt) == attempt = retry_count + 1

\* app.py:61: if attempt == retry_count
LastAttempt(attempt) == attempt = retry_count

\* app.py:47: for attempt in range(retry_count + 1)
InRange(attempt) == attempt < retry_count + 1

\* the function fell off the end of the loop without a return statement
NoReturnValue == <<"None">>

CallLocals(attempt, calls, slept, result) ==
    [attempt |-> attempt, calls |-> calls, slept |-> slept, result |-> result]

\* app.py:48-75: one pass through the try statement
Create(t, outcome) ==
    /\ pc[t] = "create"
    /\ LET L == loc[t]
           calls == Append(L.calls, outcome)
       IN  IF outcome.kind = "returned"
           THEN /\ pc' = [pc EXCEPT ![t] = "done"]
                /\ loc' = [loc EXCEPT ![t] = CallLocals(L.attempt, calls, L.slept, outcome.content)]
           ELSE IF LastAttempt(L.attempt)
           THEN /\ pc' = [pc EXCEPT ![t] = "done"]
                /\ loc' = [loc EXCEPT ![t] = CallLocals(L.attempt, calls, L.slept, Apology(outcome.error))]
           ELSE /\ pc' = [pc EXCEPT ![t] = "sleep"]
                /\ loc' = [loc EXCEPT ![t] = CallLocals(L.attempt, calls, L.slept, L.result)]
    /\ UNCHANGED <<user_states, sheet, out, nmsg>>

\* app.py:78 and 47: time.sleep(1), then the next value of the loop
Sleep(t) ==
    /\ pc[t] = "sleep"
    /\ LET L == loc[t]
       IN  IF InRange(L.attempt + 1)
           THEN /\ pc' = [pc EXCEPT ![t] = "create"]
                /\ loc' = [loc EXCEPT ![t] = CallLocals(L.attempt + 1, L.calls, L.slept + 1, L.result)]
           ELSE /\ pc' = [pc EXCEPT ![t] = "done"]
                /\ loc' = [loc EXCEPT ![t] = CallLocals(L.attempt, L.calls, L.slept + 1, NoReturnValue)]
    /\ UNCHANGED <<user_states, sheet, out, nmsg>>

InitClassifier ==
    /\ user_states = <<>>
    /\ sheet = SheetRows
    /\ out = NoOutput
    /\ pc = [t \in Threads |-> "create"]
    /\ loc = [t \in Threads |-> CallLocals(0, <<>>, 0, <<>>)]
    /\ nmsg = 0

StepClassifier(t) ==
    \/ \E outcome \in CreateOutcomes : Create(t, outcome)
    \/ Sleep(t)

NextClassifier == \E t \in Threads : StepClassifier(t)

\* a create call returns or raises (the client's request timeout), and a
\* sleep of one second ends: a thread inside the loop takes its next step
SpecClassifier ==
    /\ InitClassifier
    /\ [][NextClassifier]_vars
    /\ \A t \in Threads : WF_vars(StepClassifier(t))

\* the call of thread t as far as it has run
AllRaised(calls) == \A i \in 1..Len(calls) : calls[i].kind = "raised"

CallSafe(t) ==
    LET L == loc[t]
        n == Len(L.calls)
    IN  /\ n <= 3
        /\ L.slept <= 2
        /\ AllRaised(SubSeq(L.calls, 1, n - 1))
        /\ pc[t] = "create" => L.slept = n /\ AllRaised(L.calls)
        /\ pc[t] = "sleep" => L.slept = n - 1 /\ AllRaised(L.calls)
        /\ pc[t] = "done" =>
              /\ n >= 1
              /\ L.slept = n - 1
              /\ IF L.calls[n].kind = "returned"
                 THEN L.result = L.calls[n].content
                 ELSE /\ n = 3
                      /\ L.result = Apology(L.calls[n].error)
                      /\ Verdict(L.result) = "Other"

\* C21: a classifier call makes at most 3 create calls, sleeps exactly once
\* between two consecutive calls and never before the first or after the
\* last, returns the content of the first call that returns, returns an
\* apology that no token matches when all 3 calls raise, and always ends.
Thm_C21_BoundedRetries ==
    /\ [](\A t \in Threads : CallSafe(t))
    /\ \A t \in Threads : <>(pc[t] = "done")

\* a call that ended with the apology after three raised create calls
Wit_C21_ThreeFailures ==
    \E t \in Threads :
        /\ pc[t] = "done"
        /\ Len(loc[t].calls) = 3
        /\ loc[t].calls[3].kind = "raised"
        /\ loc[t].slept = 2
        /\ Verdict(loc[t].result) = "Other"

----------------------------------------------------------------------------
(* get_questions_by_age on its own, app.py:142-167: the sheet holds the    *)
(* item bank with at most one malformed row in it, and a lookup is made    *)
(* for every age.                                                          *)

\* the item bank with a malformed row put in before row p
WithMalformedRow(p, defect) ==
    SubSeq(SheetRows, 1, p - 1) \o <<Malformed(SheetRows[p], defect)>> \o SubSeq(SheetRows, p, Len(SheetRows))

Banks == {SheetRows} \cup {WithMalformedRow(p, defect) : p \in 1..Len(SheetRows), defect \in Defects}

LookupAges == (0 - 1)..(MaxMonths + 1)

\* app.py:142-167: one call of get_questions_by_age(months)
Lookup(months, readOk) ==
    /\ out' = [kind |-> "lookup", months |-> months, readOk |-> readOk,
               questions |-> get_questions_by_age(sheet, months, readOk)]
    /\ UNCHANGED <<user_states, sheet, pc, loc, nmsg>>

InitLookup ==
    /\ user_states = <<>>
    /\ sheet \in Banks
    /\ out = NoOutput
    /\ pc = [t \in Threads |-> "idle"]
    /\ loc = [t \in Threads |-> NoLoc]
    /\ nmsg = 0

NextLookup == \E months \in LookupAges, readOk \in BOOLEAN : Lookup(months, readOk)

SpecLookup == InitLookup /\ [][NextLookup]_vars

\* the well-formed rows of the bank whose age window contains the age
WellFormedMatches(data, months) ==
    LET Matches(row) == "defect" \notin DOMAIN row /\ row.min_age <= months /\ months <= row.max_age
    IN  SelectSeq(data, Matches)

\* C22 as stated: when the sheet was read, a lookup returns exactly the
\* well-formed rows whose age window contains the requested age, whatever
\* malformed row (age range without two integers, non-numeric group, too few
\* columns) the bank holds, and Empty only when there is no such row.
Orig_C22_MalformedRowsSkipped ==
    (out.kind = "lookup" /\ out.readOk) =>
        out.questions = WellFormedMatches(sheet, out.months)

\* what the code does keep: a row whose age range lacks two integers is
\* skipped and the matching items are returned
AgeRangeDefectSkipped ==
    (/\ out.kind = "lookup"
     /\ out.readOk
     /\ \A i \in 1..Len(sheet) : ~RowRaises(sheet[i]))
        => out.questions = WellFormedMatches(sheet, out.months)

----------------------------------------------------------------------------
(* Two callers.  user_states is one dictionary keyed by user_id            *)
(* (app.py:212); the messages of two callers are handled by the threads of *)
(* the server in any interleaving, each testing branch cut at its          *)
(* classifier call as in SpecConcurrent.                                   *)

Callers == {"u1", "u2"}

CountedCaller == nmsg < MaxCallerMsgs /\ nmsg' = nmsg + 1 /\ UNCHANGED <<pc, loc>>

NextCallers ==
    \/ \E u \in Callers : Back(u) /\ CountedCaller
    \/ \E u \in Callers, cmd \in Commands : MainMenu(u, cmd) /\ CountedCaller
    \/ \E u \in Callers, cmd \in Commands : TipsTreatment(u, cmd) /\ CountedCaller
    \/ \E u \in Callers, birth \in BirthInputs, readOk \in BOOLEAN :
          Aging(u, birth, readOk) /\ CountedCaller
    \/ \E t \in Threads, u \in Callers : nmsg < MaxCallerMsgs /\ BeginAnswer(t, u)
    \/ \E t \in Threads, reply \in Replies, readOk \in BOOLEAN : FinishAnswer(t, reply, readOk)
    \/ \E t \in Threads : ResetAfterReply(t)

SpecCallers == Init /\ [][NextCallers]_vars

\* the step belongs to the handling of a message of caller a: a message of a
\* was taken up, or a thread serving a went on after its classifier call
HandledFor(a) ==
    IF nmsg' # nmsg THEN out'.user = a
    ELSE \E t \in Threads : pc'[t] # pc[t] /\ loc[t].user = a

\* the session of caller b, or nothing when b has none
SessionOf(states, b) == IF b \in DOMAIN states THEN <<states[b]>> ELSE <<>>

\* C23: a step taken while handling a message of caller A leaves every other
\* caller B as it was: B has a session afterwards exactly when B had one
\* before, and that session is unchanged, whatever the interleaving.
Thm_C23_CallerIsolation ==
    [][\A a \in Callers, b \in Callers :
          (a # b /\ HandledFor(a)) =>
              SessionOf(user_states', b) = SessionOf(user_states, b)]_vars

\* a message of one caller was handled while a thread serving the other
\* caller waits for the classifier
Wit_C23_OtherCallerWaiting ==
    \E a \in Callers, b \in Callers, t \in Threads :
        /\ a # b
        /\ pc[t] = "classify"
        /\ loc[t].user = b
        /\ out.user = a
        /\ a \in DOMAIN user_states
        /\ user_states[a]["mode"] = MODE_AGING
        /\ user_states[b]["mode"] \in TestingModes

\* a session in which nothing has been answered yet
FreshCounters(s) ==
    /\ s["current_index"] = 0
    /\ s["score_all"] = 0
    /\ s["score_all_current"] = 0
    /\ s["score_r"] = 0
    /\ s["score_e"] = 0
    /\ s["right_questions"] = <<>>
    /\ s["wrong_questions"] = <<>>

\* C24: a calendar birth date not after the day of the message, with an age
\* of at most 36 months: when the lookup returns items the session becomes a
\* MODE_TESTING_FIRST session with original_group = group = the group of the
\* first item returned, current_index 0, all score counters 0 and both
\* ledgers empty; when the lookup returns nothing the session becomes the
\* bare main-menu session and no testing mode is entered.
Thm_C24_SessionCreation ==
    [][\A u \in Users :
        (u \in DOMAIN user_states /\ user_states[u]["mode"] = MODE_AGING) =>
        \A text \in BirthTexts, today \in Todays, readOk \in BOOLEAN :
          (/\ text.kind = "digits"
           /\ IsCalendarDate(text)
           /\ ~After(text, today)
           /\ calculate_age(text, today) <= 36
           /\ Aging(u, ParseBirth(text, today), readOk))
          => LET lookup == get_questions_by_age(sheet, calculate_age(text, today), readOk)
                 t == user_states'[u]
             IN  IF lookup # None
                 THEN /\ t["mode"] = MODE_TESTING_FIRST
                      /\ t["questions"] = lookup
                      /\ t["original_group"] = lookup[1].group
                      /\ t["group"] = lookup[1].group
                      /\ FreshCounters(t)
                      /\ out'.kind = "question"
                 ELSE /\ t = MainMenuState
                      /\ out'.kind = "config_error"]_vars

\* a first-group session just created for a child in group 5
Wit_C24_CreatedInGroupFive ==
    /\ out.kind = "question"
    /\ out.mode = MODE_AGING
    /\ \E u \in DOMAIN user_states :
          /\ out.user = u
          /\ user_states[u]["mode"] = MODE_TESTING_FIRST
          /\ user_states[u]["original_group"] = 5
          /\ user_states[u]["group"] = 5
          /\ FreshCounters(user_states[u])

\* the session holds the mode and nothing else
BareMainMenu(s) == DOMAIN s = {"mode"} /\ s["mode"] = MODE_MAIN_MENU

\* C25: the back command in any mode leaves the caller with a session that
\* holds only mode = MODE_MAIN_MENU and is answered by the menu text without a
\* classification; every report is followed by the same bare session; and a
\* session that enters MODE_TESTING_FIRST, whatever the caller did before,
\* has index 0, all score counters 0 and both ledgers empty.
Thm_C25_ResetToBareMenu ==
    [][\A u \in Users :
          /\ Back(u) =>
                /\ BareMainMenu(user_states'[u])
                /\ out'.kind = "menu"
                /\ out'.verdict = ""
                /\ out'.lookup = ""
          /\ (out'.user = u /\ out'.kind = "menu" /\ out'.mode \in TestingModes) =>
                BareMainMenu(user_states'[u])
          /\ (out'.user = u /\ out'.kind = "report") =>
                BareMainMenu(user_states'[u])
          /\ (/\ u \in DOMAIN user_states'
              /\ user_states'[u]["mode"] = MODE_TESTING_FIRST
              /\ ModeOf(u) # MODE_TESTING_FIRST) =>
                FreshCounters(user_states'[u])]_vars

\* the caller left a backward walk with the back command
Wit_C25_BackOutOfBackward ==
    /\ out.kind = "menu"
    /\ out.mode = MODE_TESTING_BACKWARD
    /\ \E u \in DOMAIN user_states :
          /\ out.user = u
          /\ BareMainMenu(user_states[u])

\* seq is an initial part of longer
IsPrefix(seq, longer) == Len(seq) <= Len(longer) /\ SubSeq(longer, 1, Len(seq)) = seq

\* the two ledgers after this step, whether caller u's session is still in a
\* testing mode or the step sent the report, where both are sorted
LedgersAfter(u, right, wrong) ==
    /\ user_states'[u]["mode"] \in TestingModes =>
          /\ user_states'[u]["right_questions"] = right
          /\ user_states'[u]["wrong_questions"] = wrong
    /\ out'.kind = "report" =>
          /\ out'.right = SortSeq(right, <)
          /\ out'.wrong = SortSeq(wrong, <)

\* C26: with messages handled one at a time, an answer (not the back
\* command) whose item was read:
\* classified Pass it appends the item's id to the passed ledger only,
\* classified Fail to the failed ledger only, without a change of any score
\* and with current_index + 1 when the item is not the last of its group, and
\* classified otherwise it appends nothing; this holds in every testing mode
\* and on the steps that change group in either direction, where both ledgers
\* go on as they were; the id appended was in neither ledger before, so no
\* id is twice in the ledgers or in both.
Thm_C26_LedgersAppendOnly ==
    [][\A u \in Users :
          (/\ u \in DOMAIN user_states
           /\ user_states[u]["mode"] \in TestingModes
           /\ out'.user = u
           /\ out'.mode = user_states[u]["mode"]
           /\ out'.kind # "menu"
           /\ user_states[u]["current_index"] < Len(user_states[u]["questions"]))
          => LET s == user_states[u]
                 t == user_states'[u]
                 id == CurrentItem(u).number
             IN  IF out'.verdict \notin {"Pass", "Fail"}
                 THEN t = s /\ out'.kind # "report"
                 ELSE /\ \A i \in DOMAIN s["right_questions"] : s["right_questions"][i] # id
                      /\ \A i \in DOMAIN s["wrong_questions"] : s["wrong_questions"][i] # id
                      /\ out'.verdict = "Pass" =>
                            LedgersAfter(u, Append(s["right_questions"], id), s["wrong_questions"])
                      /\ out'.verdict = "Fail" =>
                            /\ LedgersAfter(u, s["right_questions"], Append(s["wrong_questions"], id))
                            /\ s["current_index"] + 1 < Len(s["questions"]) =>
                                  /\ t["current_index"] = s["current_index"] + 1
                                  /\ t["score_all"] = s["score_all"]
                                  /\ t["score_all_current"] = s["score_all_current"]
                                  /\ t["score_r"] = s["score_r"]
                                  /\ t["score_e"] = s["score_e"]
                      /\ (t["mode"] \in TestingModes /\ t["group"] # s["group"]) =>
                            /\ IsPrefix(s["right_questions"], t["right_questions"])
                            /\ IsPrefix(s["wrong_questions"], t["wrong_questions"])
                            /\ Len(t["right_questions"]) + Len(t["wrong_questions"])
                                  = Len(s["right_questions"]) + Len(s["wrong_questions"]) + 1
                      /\ out'.kind = "report" =>
                            Len(out'.right) + Len(out'.wrong)
                                  = Len(s["right_questions"]) + Len(s["wrong_questions"]) + 1]_vars

\* a backward walk two groups below the first one, with the ledgers of the
\* groups before it carried along
Wit_C26_LedgersAcrossGroups ==
    /\ out.verdict = "Fail"
    /\ \E u \in DOMAIN user_states :
          /\ out.user = u
          /\ user_states[u]["mode"] = MODE_TESTING_BACKWARD
          /\ user_states[u]["group"] + 2 = user_states[u]["original_group"]
          /\ Len(user_states[u]["right_questions"]) >= 1
          /\ Len(user_states[u]["wrong_questions"]) >= 2

\* the direction of the walk as the session records it
DirectionKept(s) ==
    /\ s["group"] \in 1..9
    /\ s["original_group"] \in 1..9
    /\ s["mode"] = MODE_TESTING_FIRST => s["group"] = s["original_group"]
    /\ s["mode"] = MODE_TESTING_FORWARD => s["group"] > s["original_group"]
    /\ s["mode"] = MODE_TESTING_BACKWARD => s["group"] < s["original_group"]

\* C27: with messages handled one at a time, a step that takes a testing
\* session to a testing session never goes from MODE_TESTING_FORWARD to
\* MODE_TESTING_BACKWARD, nor from MODE_TESTING_BACKWARD to
\* MODE_TESTING_FORWARD or MODE_TESTING_FIRST; the group goes up by one or
\* stays in a forward walk and goes down by one or stays in a backward walk;
\* group is above original_group in a forward walk, below it in a backward
\* walk, and always in 1..9; the items loaded at a change of group are those
\* of the session's group and none of them is in the ledgers, so no group is
\* administered twice.
Thm_C27_WalkKeepsDirection ==
    [][\A u \in Users :
          (/\ u \in DOMAIN user_states
           /\ user_states[u]["mode"] \in TestingModes
           /\ u \in DOMAIN user_states'
           /\ user_states'[u]["mode"] \in TestingModes
           /\ user_states'[u] # user_states[u])
          => LET s == user_states[u]
                 t == user_states'[u]
             IN  /\ s["mode"] = MODE_TESTING_FORWARD =>
                        /\ t["mode"] = MODE_TESTING_FORWARD
                        /\ t["group"] \in {s["group"], s["group"] + 1}
                 /\ s["mode"] = MODE_TESTING_BACKWARD =>
                        /\ t["mode"] = MODE_TESTING_BACKWARD
                        /\ t["group"] \in {s["group"], s["group"] - 1}
                 /\ s["mode"] = MODE_TESTING_FIRST =>
                        /\ t["mode"] = MODE_TESTING_FORWARD => t["group"] = s["group"] + 1
                        /\ t["mode"] = MODE_TESTING_BACKWARD => t["group"] = s["group"] - 1
                 /\ t["original_group"] = s["original_group"]
                 /\ DirectionKept(t)
                 /\ t["questions"] = s["questions"] => t["group"] = s["group"]
                 /\ (t["questions"] # s["questions"] /\ t["questions"] # None) =>
                        \A i \in DOMAIN t["questions"] :
                            /\ t["questions"][i].group = t["group"]
                            /\ \A k \in DOMAIN t["right_questions"] :
                                   t["right_questions"][k] # t["questions"][i].number
                            /\ \A k \in DOMAIN t["wrong_questions"] :
                                   t["wrong_questions"][k] # t["questions"][i].number]_vars

\* a forward walk that has reached group 9 from a first group below 8
Wit_C27_ForwardToTopGroup ==
    \E u \in DOMAIN user_states :
        /\ user_states[u]["mode"] = MODE_TESTING_FORWARD
        /\ user_states[u]["group"] = 9
        /\ user_states[u]["original_group"] < 8
        /\ user_states[u]["questions"] # None
        /\ user_states[u]["current_index"] = 1

----------------------------------------------------------------------------
(* Item banks of other sizes.  The sheet is data read at run time          *)
(* (app.py:146); a bank is given by the number of rows of each group.      *)

RECURSIVE RowsBelow(_, _)
RowsBelow(size, g) == IF g <= FirstGroup THEN 0 ELSE RowsBelow(size, g - 1) + size[g - 1]

RowsOfGroup(size, g) ==
    [i \in 1..size[g] |->
        [group |-> g, min_age |-> group_age_mapping[g], max_age |-> GroupMaxAge(g),
         number |-> RowsBelow(size, g) + i, type |-> TypeOfItem(RowsBelow(size, g) + i)]]

RECURSIVE BankUpTo(_, _)
BankUpTo(size, g) == IF g < FirstGroup THEN <<>> ELSE BankUpTo(size, g - 1) \o RowsOfGroup(size, g)

----------------------------------------------------------------------------
(* The walk under the conditions of a screening that goes well: every      *)
(* sheet read succeeds, and an item that is asked is in the end classified *)
(* Pass or Fail.                                                           *)

ProgressRows == BankUpTo([g \in Groups |-> 1 + (g % MaxProgressItems)], LastGroup)

InitProgress ==
    /\ user_states = <<>>
    /\ sheet = ProgressRows
    /\ out = NoOutput
    /\ pc = [t \in Threads |-> "idle"]
    /\ loc = [t \in Threads |-> NoLoc]
    /\ nmsg = 0

DecisiveReplies == {reply \in Replies : Verdict(reply) \in {"Pass", "Fail"}}

\* app.py:326-824 with a reply that starts with "符合" or "不符合"
DecisiveAnswer(u) ==
    \E reply \in DecisiveReplies : Answer(u, reply, TRUE) /\ UNCHANGED <<pc, loc, nmsg>>

NextProgress ==
    \E u \in Users :
        \/ Back(u) /\ UNCHANGED <<pc, loc, nmsg>>
        \/ \E cmd \in Commands : MainMenu(u, cmd) /\ UNCHANGED <<pc, loc, nmsg>>
        \/ \E cmd \in Commands : TipsTreatment(u, cmd) /\ UNCHANGED <<pc, loc, nmsg>>
        \/ \E birth \in BirthInputs : Aging(u, birth, TRUE) /\ UNCHANGED <<pc, loc, nmsg>>
        \/ \E reply \in Replies : Answer(u, reply, TRUE) /\ UNCHANGED <<pc, loc, nmsg>>

\* a caller in a testing mode goes on answering, and the classifier does not
\* answer Unclear, with an apology or with other text for ever
SpecProgress ==
    /\ InitProgress
    /\ [][NextProgress]_vars
    /\ \A u \in Users : WF_vars(DecisiveAnswer(u))

InTesting(u) == u \in DOMAIN user_states /\ user_states[u]["mode"] \in TestingModes

\* the groups of which the session has administered an item or loaded the items
GroupsAdministered(s) ==
    {ItemGroup(n) : n \in Range(s["right_questions"]) \cup Range(s["wrong_questions"])}
        \cup {s["questions"][i].group : i \in DOMAIN s["questions"]}

Distance(a, b) == IF a < b THEN b - a ELSE a - b

----------------------------------------------------------------------------
(* The walk on an item bank whose groups have as many items as the scoring *)
(* table of app.py:199-201 adds for them.  An attempt has at most MaxFails *)
(* items classified Fail; every sheet read succeeds.                       *)

TableSizes ==
    [g \in Groups |-> get_group_all_score(g) - (IF g = FirstGroup THEN 0 ELSE get_group_all_score(g - 1))]

TableRows == BankUpTo(TableSizes, LastGroup)

InitTable ==
    /\ user_states = <<>>
    /\ sheet = TableRows
    /\ out = NoOutput
    /\ pc = [t \in Threads |-> "idle"]
    /\ loc = [t \in Threads |-> NoLoc]
    /\ nmsg = 0

\* app.py:326-824 with a reply that starts with "符合" or "不符合"
AnswerWithinFails(u, reply) ==
    /\ ModeOf(u) \in TestingModes
    /\ Verdict(reply) = "Fail" => Len(user_states[u]["wrong_questions"]) < MaxFails
    /\ Answer(u, reply, TRUE)

NextTable ==
    \E u \in Users :
        \/ MainMenu(u, CMD_SCREEN) /\ UNCHANGED <<pc, loc, nmsg>>
        \/ \E birth \in BirthInputs : Aging(u, birth, TRUE) /\ UNCHANGED <<pc, loc, nmsg>>
        \/ \E reply \in DecisiveReplies : AnswerWithinFails(u, reply) /\ UNCHANGED <<pc, loc, nmsg>>

SpecTable == InitTable /\ [][NextTable]_vars

\* C29: on an item bank whose groups have 5,5,5,5,6,6,6,6,6 items, every
\* composite of a report is in 0..50; finalized from MODE_TESTING_FORWARD, or
\* from a perfect group 9 as first group, it is at least the table's
\* cumulative score through original_group; finalized from
\* MODE_TESTING_BACKWARD, or from an imperfect group 1 as first group, it is
\* below that score.
Thm_C29_CompositeRange ==
    [][\A u \in Users :
          /\ (out'.user = u /\ out'.kind = "report") => out'.score \in 0..50
          /\ FinalizedFrom(u, MODE_TESTING_FORWARD) =>
                out'.score >= get_group_all_score(user_states[u]["original_group"])
          /\ (FinalizedFrom(u, MODE_TESTING_FIRST) /\ PerfectGroup(u)) =>
                /\ user_states[u]["original_group"] = 9
                /\ out'.score >= get_group_all_score(9)
          /\ FinalizedFrom(u, MODE_TESTING_BACKWARD) =>
                out'.score < get_group_all_score(user_states[u]["original_group"])
          /\ (FinalizedFrom(u, MODE_TESTING_FIRST) /\ ~PerfectGroup(u)) =>
                /\ user_states[u]["original_group"] = 1
                /\ out'.score < get_group_all_score(1)]_vars

\* a report of 50: a perfect group 8 followed by a perfect group 9
Wit_C29_FullComposite ==
    /\ out.kind = "report"
    /\ out.mode = MODE_TESTING_FORWARD
    /\ out.group = 8
    /\ out.score = 50
    /\ Len(out.right) = 12

====
